---- MODULE Spec2Model ----
(***************************************************************************)
(* Cross-process token-bucket rate limiter of cmdgpt                       *)
(* (src/src/file_rate_limiter.cpp) on top of the flock-based FileLock and   *)
(* the rename-based AtomicFileWriter (src/src/file_lock.cpp).               *)
(*                                                                         *)
(* Units.  Clocks run in ticks, TicksPerMs ticks to the millisecond, so     *)
(* that the truncation of duration_cast<milliseconds> is visible.  Token    *)
(* counts are kept in thousandths of a token: with an integral rate         *)
(* (tokens per second) the refill  elapsed_ms / 1000.0 * rate  is exactly   *)
(* elapsed_ms * rate  thousandths, so the double arithmetic of the source   *)
(* is exact on the values of the model.                                     *)
(*                                                                         *)
(* Files.  The state file is a path bound to an inode.  flock() locks the   *)
(* inode a descriptor was opened on; rename() and remove() rebind or        *)
(* unbind the path and leave the descriptors of the old inode alone.        *)
(*                                                                         *)
(* Further parts, each with variables and specifications of its own:        *)
(* AtomicFileWriter, FileLock guards as objects of one process,             *)
(* ScopedLockFile (src/src/file_lock.cpp) and ResponseCache                  *)
(* (src/src/cmdgpt.cpp).  A specification leaves the variables of the       *)
(* other parts at their idle values.                                        *)
(***************************************************************************)
EXTENDS Integers, Sequences, FiniteSets, TLC

\* ----------------------------------------------------------------- bounds
TicksPerMs == 2     \* clock resolution below the millisecond
MaxClock == 2       \* horizon of the steady clock, in ticks
MaxBurst == 2       \* largest burst_size drawn
MaxReq == 2         \* largest number of tokens asked for in one call
MaxCalls == 3       \* try_acquire calls counted where calls are counted
SeqClock == 7       \* horizon of the clocks where one process runs alone
AcqMs == 2          \* horizon of the clocks where acquire is run, in ms
MaxChunks == 2      \* write calls an AtomicFileWriter takes
MaxPids == 3        \* lines counted in a ScopedLockFile's lock file
TicksPerHour == 2   \* clock resolution below the hour, for the cache
CacheClock == 4     \* horizon of the clock where the cache is run, in ticks
MaxEntries == 2     \* entry-count ceiling of the cache (MAX_CACHE_ENTRIES)
MaxBytes == 1       \* byte-size ceiling of the cache (MAX_CACHE_SIZE_MB)
DigestBytes == 1    \* bytes of a digest (SHA256_DIGEST_LENGTH)
MaxField == 1       \* longest prompt, model or system prompt hashed

SleepCapMs == 100   \* acquire sleeps at most this long between attempts
RetrySleepMs == 10  \* acquire's sleep when no wait is computed

Procs == {1, 2}
Rates == {400, 1000}        \* tokens per second
Waits == {0, 1}             \* max_wait values drawn (ms), 0 = no limit

VARIABLES
    rate,       \* rate_ of the limiters (tokens per second)
    burst,      \* burst_size_ of the limiters
    timeout,    \* timeout_ of the limiters (ms)
    ino,        \* 1 when the state-file path is bound to an inode, 0 when absent
    content,    \* what a read of the path returns
    mono,       \* steady_clock, ticks
    wall,       \* system_clock, ticks
    pc,         \* position of each process
    op,         \* public operation each process is in
    call,       \* lock-taking function each process is in
    n,          \* tokens argument of try_acquire / acquire
    st,         \* local TokenBucketState about to be saved
    fd,         \* FileLock::fd_ as the inode it is open on: 0 closed, 1 the inode
                \* the path is bound to, 2.. inodes the path has been moved off
    lk,         \* flock held through fd_: "none", "sh" or "ex"
    lstart,     \* FileLock constructor's start (steady ticks)
    res,        \* how the operation ended: "none", "true", "false", "void", "threw"
    avail,      \* value returned by get_available_tokens (thousandths)
    made,       \* whether the process has constructed its FileRateLimiter
    astart,     \* acquire's start (steady ticks)
    maxw,       \* acquire's max_wait (ms)
    wake,       \* end of the current sleep_for (steady ticks)
    hist,       \* observer: calls and grants counted, first denial since a
                \* grant, whether the file has been removed
    target,     \* AtomicFileWriter: the file at target_path_
    aw,         \* AtomicFileWriter objects
    gd,         \* FileLock objects of one process
    fdt,        \* that process's descriptors on the locked file
    gev,        \* observer: the last FileLock member call and its result
    lockfile,   \* ScopedLockFile: the file at lock_file_path_
    sl,         \* ScopedLockFile objects
    cache,      \* ResponseCache: the .json files of cache_dir_, by key
    exph,       \* ResponseCache::expiration_hours_
    cres,       \* observer: the last ResponseCache call and its result
    kin,        \* generate_key: the (prompt, model, system_prompt) triples
    kout,       \* generate_key: the keys returned for them
    dent,       \* shared cache directory: the <key>.json files
    dtmp,       \* shared cache directory: the <key>.json.tmp files
    cp          \* the processes sharing the cache directory

vars == << rate, burst, timeout, ino, content, mono, wall, pc, op, call, n, st,
           fd, lk, lstart, res, avail, made, astart, maxw, wake, hist,
           target, aw, gd, fdt, gev, lockfile, sl, cache, exph, cres,
           kin, kout, dent, dtmp, cp >>

\* The variables of the rate limiter, and those of the other parts.
limv == << rate, burst, timeout, ino, content, mono, wall, pc, op, call, n, st,
           fd, lk, lstart, res, avail, made, astart, maxw, wake, hist >>
wrv == << target, aw >>
gdv == << gd, fdt, gev >>
slv == << lockfile, sl >>
chv == << cache, exph, cres >>
kgv == << kin, kout >>
shv == << dent, dtmp, cp >>
otherv == << wrv, gdv, slv, chv, kgv, shv >>

cfgv == << rate, burst, timeout >>
aqv == << astart, maxw, wake >>

\* ------------------------------------------------------- TokenBucketState
\* A file shorter than sizeof(TokenBucketState): what O_CREAT leaves behind.
Truncated ==
    [size |-> "short", tokens |-> 0, last_update_ms |-> 0, rate |-> 0,
     burst_size |-> 0, version |-> 0]

\* No file at all: std::ifstream fails to open.
Absent ==
    [size |-> "none", tokens |-> 0, last_update_ms |-> 0, rate |-> 0,
     burst_size |-> 0, version |-> 0]

MkState(t, l, r, b, v) ==
    [size |-> "full", tokens |-> t, last_update_ms |-> l, rate |-> r,
     burst_size |-> b, version |-> v]

Min(a, b) == IF a <= b THEN a ELSE b

\* duration_cast<milliseconds>(now.time_since_epoch()).count()
NowMs == wall \div TicksPerMs

\* Constructor's initial_state: a full bucket stamped with the current time.
InitialState(now_ms) == MkState(burst * 1000, now_ms, rate, burst, 1)

\* reset's state: an empty bucket stamped with the current time.
ResetState(now_ms) == MkState(0, now_ms, rate, burst, 1)

\* update_tokens without the cap at burst_size.
UpdateTokensNoCap(s, now_ms) ==
    LET elapsed_ms == now_ms - s.last_update_ms IN
    IF elapsed_ms <= 0 THEN s
    ELSE [s EXCEPT !.tokens = s.tokens + elapsed_ms * s.rate,
                   !.last_update_ms = now_ms]

\* update_tokens that stamps the time and forgets to add the refill.
UpdateTokensNoRefill(s, now_ms) ==
    LET elapsed_ms == now_ms - s.last_update_ms IN
    IF elapsed_ms <= 0 THEN s
    ELSE [s EXCEPT !.last_update_ms = now_ms]

\* update_tokens: no change when no time has passed or the clock went back.
UpdateTokens(s, now_ms) ==
    LET elapsed_ms == now_ms - s.last_update_ms IN
    IF elapsed_ms <= 0 THEN s
    ELSE [s EXCEPT !.tokens = Min(s.tokens + elapsed_ms * s.rate, s.burst_size * 1000),
                   !.last_update_ms = now_ms]

\* load_state without the version check.
LoadAnyVersion(c) == c.size = "full"

\* load_state succeeds: sizeof(state) bytes were read and version is 1.
LoadOK(c) == c.size = "full" /\ c.version = 1

\* try_acquire's test with > in place of >=.
HasTokensStrict(s, k) == s.tokens > k * 1000

\* try_acquire's test  state.tokens >= tokens.
HasTokens(s, k) == s.tokens >= k * 1000

\* try_acquire's grant: tokens taken and the new time stamp.
Consume(s, k, now_ms) ==
    [s EXCEPT !.tokens = s.tokens - k * 1000, !.last_update_ms = now_ms]

\* get_available_tokens' computation on a loaded state.
AvailableTokens(s, now_ms) ==
    LET elapsed_ms == now_ms - s.last_update_ms IN
    Min(s.tokens + elapsed_ms * s.rate, s.burst_size * 1000)

\* ------------------------------------------------------------ file system
PathExists == ino # 0

\* Inode numbers carry no meaning: the inodes off the path are numbered
\* 2, 3, .. in the order of the least process holding a descriptor on them.
Leader(f, p) == CHOOSE q \in Procs : f[q] = f[p] /\ \A r \in Procs : f[r] = f[p] => q <= r

Canon(f) ==
    [p \in Procs |->
        IF f[p] < 2 THEN f[p]
        ELSE 1 + Cardinality({q \in Procs : f[q] >= 2 /\ q = Leader(f, q)
                                              /\ q <= Leader(f, p)})]

\* The descriptors after the path has been moved off its inode (rename over
\* it, or remove): they stay open on the old inode.
OffPath(f) == Canon([p \in Procs |-> IF f[p] = 1 THEN Cardinality(Procs) + 2 ELSE f[p]])

\* What load_state's ifstream sees: the content of the path, when it opens.
ReadPath == IF PathExists THEN content ELSE Absent

\* flock(fd_, lock_op | LOCK_NB) would fail with EWOULDBLOCK.
Conflict(p, mode) ==
    \E q \in Procs \ {p} :
        /\ lk[q] # "none"
        /\ fd[q] = fd[p]
        /\ (mode = "ex" \/ lk[q] = "ex")

LockMode(c) == IF c = "avail" THEN "sh" ELSE "ex"

\* elapsed >= timeout_ms in FileLock's retry loop.
LockTimedOut(p) == mono - lstart[p] >= timeout * TicksPerMs

\* ------------------------------------------------- idle values of the parts
Writers == {1, 2}           \* AtomicFileWriter objects on one target
Guards == {1, 2, 3}         \* FileLock objects on one path
Fds == {1, 2, 3}            \* descriptor numbers of the process
Holders == {1, 2, 3}        \* ScopedLockFile objects on one path

\* No AtomicFileWriter has been constructed.  temp is the length of the
\* temporary file, -1 when there is none.
NoWriter ==
    [pc |-> "none", open |-> FALSE, temp |-> -1, committed |-> FALSE,
     aborted |-> FALSE, commitCalled |-> FALSE, wrote |-> FALSE, flen |-> -1,
     res |-> "none"]

\* The target: who wrote the content (0: the previous version), its length,
\* and whether the path has ever been bound.
NoTarget == [exists |-> FALSE, by |-> 0, len |-> 0, had |-> FALSE]
OldTarget == [exists |-> TRUE, by |-> 0, len |-> 1, had |-> TRUE]

WriterIdle ==
    /\ target = NoTarget
    /\ aw = [w \in Writers |-> NoWriter]

\* No FileLock has been constructed.  fd 0 stands for fd_ = -1.
NoGuard == [st |-> "none", locked |-> FALSE, type |-> "ex", fd |-> 0]
NoEvent == [op |-> "none", g |-> 0, was |-> FALSE, ret |-> "none", seq |-> 0]

GuardIdle ==
    /\ gd = [g \in Guards |-> NoGuard]
    /\ fdt = [f \in Fds |-> "closed"]
    /\ gev = NoEvent

\* No ScopedLockFile has been constructed and there is no lock file.
NoLockFile == [exists |-> FALSE, pids |-> 0]
NoHolder == [st |-> "none", locked |-> FALSE]

ScopedIdle ==
    /\ lockfile = NoLockFile
    /\ sl = [h \in Holders |-> NoHolder]

\* Cache keys are strings, kept as sequences of characters.
HexChars ==
    {"0", "1", "2", "3", "4", "5", "6", "7", "8", "9",
     "a", "b", "c", "d", "e", "f", "A", "B", "C", "D", "E", "F"}

GoodKeys == { << "a", "1" >>, << "0", "f" >>, << "B", "2" >> }

BadKeys ==
    { << ".", ".", "/", "e", "v", "i", "l" >>,
      << "t", "e", "s", "t", "/", ".", ".", "/", ".", ".", "/", "e", "v", "i", "l" >>,
      << "/", "e", "t", "c", "/", "p", "a", "s", "s", "w", "d" >> }

Keys == GoodKeys \cup BadKeys

\* Keys of hex digits that are not the length of a digest in hex: empty,
\* short and long.
OddKeys == { << >>, << "a" >>, << "a", "1", "b" >> }

AnyKeys == Keys \cup OddKeys

\* The keys get_cache_path lets through name the files there can be.
EntryKeys == GoodKeys \cup OddKeys

\* A digest in hex: two digits to the byte.
KeyLen == 2 * DigestBytes

Payloads == {"R", "S"}

\* No file for a key; no call made yet.
NoEntry == [exists |-> FALSE, payload |-> "", mtime |-> 0]
NoCall ==
    [op |-> "none", key |-> << >>, ret |-> "none", cnt |-> 0, age |-> -1, had |-> ""]

\* No ResponseCache has been constructed: no directory.
CacheIdle ==
    /\ cache = << >>
    /\ exph = 0
    /\ cres = NoCall

\* generate_key is not called.
KeysIdle ==
    /\ kin = << >>
    /\ kout = << >>

\* The processes sharing a cache directory; nothing in the directory and no
\* call under way.  fd says where the file a process holds open is now:
\* "tmp" at the temporary path of its key, "ent" at the entry path,
\* "gone" when no path names it any more.
CProcs == {1, 2}

NoFile == [exists |-> FALSE, data |-> << >>, mtime |-> 0]

NoTask ==
    [pc |-> "idle", op |-> "none", key |-> << >>, val |-> "", fd |-> "none",
     todo |-> {}, cnt |-> 0, removed |-> 0, ret |-> "none", misses |-> 0]

\* No shared cache directory and no process using one.
SharedIdle ==
    /\ dent = << >>
    /\ dtmp = << >>
    /\ cp = << >>

\* ------------------------------------------------------------------- Init
LockTimeouts == {0, 1}      \* timeout_ values drawn (ms)

\* No process is inside a limiter operation and there is no state file.
ProcsIdle ==
    /\ ino = 0
    /\ content = Absent
    /\ mono = 0
    /\ wall = 0
    /\ pc = [p \in Procs |-> "idle"]
    /\ op = [p \in Procs |-> "none"]
    /\ call = [p \in Procs |-> "none"]
    /\ n = [p \in Procs |-> 0]
    /\ st = [p \in Procs |-> Absent]
    /\ fd = [p \in Procs |-> 0]
    /\ lk = [p \in Procs |-> "none"]
    /\ lstart = [p \in Procs |-> 0]
    /\ res = [p \in Procs |-> "none"]
    /\ avail = [p \in Procs |-> 0]
    /\ made = [p \in Procs |-> FALSE]
    /\ astart = [p \in Procs |-> 0]
    /\ maxw = [p \in Procs |-> 0]
    /\ wake = [p \in Procs |-> 0]

InitCommon ==
    /\ rate \in Rates
    /\ burst \in 1 .. MaxBurst
    /\ ProcsIdle
    /\ WriterIdle
    /\ GuardIdle
    /\ ScopedIdle
    /\ CacheIdle
    /\ KeysIdle
    /\ SharedIdle

HistOff == [on |-> FALSE, calls |-> 0, grants |-> 0, denyAt |-> -1, removed |-> FALSE]
HistOn == [on |-> TRUE, calls |-> 0, grants |-> 0, denyAt |-> -1, removed |-> FALSE]

Init ==
    /\ InitCommon
    /\ timeout \in LockTimeouts
    /\ hist = HistOff

\* The limiter as the other parts leave it: unused.
LimiterIdle ==
    /\ rate = 1000
    /\ burst = 1
    /\ timeout = 0
    /\ hist = HistOff
    /\ ProcsIdle

\* ---------------------------------------------------------------- helpers
\* Where a process goes when try_acquire / get_available_tokens returns.
AfterTry(p) == IF op[p] = "acquire" THEN "aq_check" ELSE "done"
AfterAvail(p) == IF op[p] = "acquire" THEN "aq_tua" ELSE "done"

\* FileLock constructor up to open(): start is taken, the file is opened
\* with O_CREAT | O_RDWR, which creates an empty file when the path is unbound.
OpenLock(p, c) ==
    /\ call' = [call EXCEPT ![p] = c]
    /\ lstart' = [lstart EXCEPT ![p] = mono]
    /\ fd' = [fd EXCEPT ![p] = 1]
    /\ IF PathExists
       THEN UNCHANGED << ino, content >>
       ELSE /\ ino' = 1
            /\ content' = Truncated
    /\ pc' = [pc EXCEPT ![p] = "lk_wait"]

\* ~FileLock / unlock(): flock(LOCK_UN), close.
Release(p) ==
    /\ fd' = Canon([fd EXCEPT ![p] = 0])
    /\ lk' = [lk EXCEPT ![p] = "none"]

\* AtomicFileWriter on the state file: the temporary file is renamed over
\* the path, which from then on is bound to a new inode.
SaveState(p, s) ==
    /\ ino' = 1
    /\ content' = s
    /\ fd' = OffPath(fd)

CountCall == IF hist.on THEN [hist EXCEPT !.calls = @ + 1] ELSE hist
\* Grants and denials are recorded for the try_acquire calls made by the
\* caller, not for those acquire makes internally.
CountGrant(p) ==
    IF hist.on /\ op[p] = "try"
    THEN [hist EXCEPT !.grants = @ + 1, !.denyAt = -1] ELSE hist
CountDeny(p) ==
    IF hist.on /\ op[p] = "try" /\ hist.denyAt = -1
    THEN [hist EXCEPT !.denyAt = wall] ELSE hist

\* ------------------------------------------------------------ constructor
Ctor(p) ==
    /\ pc[p] = "idle"
    /\ op' = [op EXCEPT ![p] = "ctor"]
    /\ IF PathExists
       THEN /\ pc' = [pc EXCEPT ![p] = "done"]
            /\ made' = [made EXCEPT ![p] = TRUE]
            /\ res' = [res EXCEPT ![p] = "void"]
            /\ UNCHANGED st
       ELSE /\ pc' = [pc EXCEPT ![p] = "ctor_save"]
            /\ st' = [st EXCEPT ![p] = InitialState(NowMs)]
            /\ UNCHANGED << made, res >>
    /\ UNCHANGED << otherv, cfgv, ino, content, mono, wall, call, n, fd, lk, lstart, avail, aqv, hist >>

CtorSave(p) ==
    /\ pc[p] = "ctor_save"
    /\ SaveState(p, st[p])
    /\ st' = [st EXCEPT ![p] = Absent]
    /\ made' = [made EXCEPT ![p] = TRUE]
    /\ res' = [res EXCEPT ![p] = "void"]
    /\ pc' = [pc EXCEPT ![p] = "done"]
    /\ UNCHANGED << otherv, cfgv, mono, wall, op, call, n, lk, lstart, avail, aqv, hist >>

\* --------------------------------------------------------------- FileLock
LkAcquire(p) ==
    /\ pc[p] = "lk_wait"
    /\ ~Conflict(p, LockMode(call[p]))
    /\ lk' = [lk EXCEPT ![p] = LockMode(call[p])]
    /\ lstart' = [lstart EXCEPT ![p] = 0]
    /\ pc' = [pc EXCEPT ![p] = CASE call[p] = "try" -> "ta_load"
                                 [] call[p] = "avail" -> "ga_load"
                                 [] OTHER -> "rs_save"]
    /\ UNCHANGED << otherv, cfgv, ino, content, mono, wall, op, call, n, st, fd, res, avail,
                    made, aqv, hist >>

\* EWOULDBLOCK with elapsed >= timeout_ms: close(fd_) and throw.  try_acquire
\* and get_available_tokens catch it; reset lets it through.
LkTimeout(p) ==
    /\ pc[p] = "lk_wait"
    /\ Conflict(p, LockMode(call[p]))
    /\ LockTimedOut(p)
    /\ fd' = Canon([fd EXCEPT ![p] = 0])
    /\ lstart' = [lstart EXCEPT ![p] = 0]
    /\ CASE call[p] = "try" ->
              /\ res' = [res EXCEPT ![p] = "false"]
              /\ pc' = [pc EXCEPT ![p] = AfterTry(p)]
              /\ UNCHANGED avail
         [] call[p] = "avail" ->
              /\ avail' = [avail EXCEPT ![p] = 0]
              /\ res' = [res EXCEPT ![p] = "void"]
              /\ pc' = [pc EXCEPT ![p] = AfterAvail(p)]
         [] OTHER ->
              /\ res' = [res EXCEPT ![p] = "threw"]
              /\ pc' = [pc EXCEPT ![p] = "done"]
              /\ UNCHANGED avail
    /\ UNCHANGED << otherv, cfgv, ino, content, mono, wall, op, call, n, st, lk, made, aqv, hist >>

\* ------------------------------------------------------------ try_acquire
TryAcquire(p, k) ==
    /\ pc[p] = "idle"
    /\ made[p]
    /\ hist.on => hist.calls < MaxCalls
    /\ op' = [op EXCEPT ![p] = "try"]
    /\ n' = [n EXCEPT ![p] = k]
    /\ OpenLock(p, "try")
    /\ hist' = CountCall
    /\ UNCHANGED << otherv, cfgv, mono, wall, st, lk, res, avail, made, aqv >>

\* load_state, update_tokens and the test.  A failed load throws: the lock
\* is destroyed on the way out and the catch block returns false.
TALoad(p) ==
    /\ pc[p] = "ta_load"
    /\ LET c == ReadPath
           s == UpdateTokens(c, NowMs)
       IN /\ IF LoadOK(c) /\ HasTokens(s, n[p])
             THEN /\ st' = [st EXCEPT ![p] = Consume(s, n[p], NowMs)]
                  /\ pc' = [pc EXCEPT ![p] = "ta_save"]
                  /\ UNCHANGED << fd, lk, res, hist >>
             ELSE /\ Release(p)
                  /\ res' = [res EXCEPT ![p] = "false"]
                  /\ pc' = [pc EXCEPT ![p] = AfterTry(p)]
                  /\ hist' = IF LoadOK(c) /\ n[p] = 1 THEN CountDeny(p) ELSE hist
                  /\ UNCHANGED st
    /\ UNCHANGED << otherv, cfgv, ino, content, mono, wall, op, call, n, lstart, avail, made, aqv >>

TASave(p) ==
    /\ pc[p] = "ta_save"
    /\ SaveState(p, st[p])
    /\ st' = [st EXCEPT ![p] = Absent]
    /\ res' = [res EXCEPT ![p] = "true"]
    /\ pc' = [pc EXCEPT ![p] = "ta_unlock"]
    /\ hist' = CountGrant(p)
    /\ UNCHANGED << otherv, cfgv, mono, wall, op, call, n, lk, lstart, avail, made, aqv >>

TAUnlock(p) ==
    /\ pc[p] = "ta_unlock"
    /\ Release(p)
    /\ pc' = [pc EXCEPT ![p] = AfterTry(p)]
    /\ UNCHANGED << otherv, cfgv, ino, content, mono, wall, op, call, n, st, lstart, res, avail,
                    made, aqv, hist >>

\* --------------------------------------------------- get_available_tokens
GetAvailableTokens(p) ==
    /\ pc[p] = "idle"
    /\ made[p]
    /\ op' = [op EXCEPT ![p] = "avail"]
    /\ OpenLock(p, "avail")
    /\ UNCHANGED << otherv, cfgv, mono, wall, n, st, lk, res, avail, made, aqv, hist >>

GALoad(p) ==
    /\ pc[p] = "ga_load"
    /\ LET c == ReadPath
       IN avail' = [avail EXCEPT ![p] = IF LoadOK(c) THEN AvailableTokens(c, NowMs) ELSE 0]
    /\ Release(p)
    /\ res' = [res EXCEPT ![p] = "void"]
    /\ pc' = [pc EXCEPT ![p] = AfterAvail(p)]
    /\ UNCHANGED << otherv, cfgv, ino, content, mono, wall, op, call, n, st, lstart, made, aqv, hist >>

\* ------------------------------------------------------------------ reset
Reset(p) ==
    /\ pc[p] = "idle"
    /\ made[p]
    /\ op' = [op EXCEPT ![p] = "reset"]
    /\ OpenLock(p, "reset")
    /\ UNCHANGED << otherv, cfgv, mono, wall, n, st, lk, res, avail, made, aqv, hist >>

RSSave(p) ==
    /\ pc[p] = "rs_save"
    /\ SaveState(p, ResetState(NowMs))
    /\ pc' = [pc EXCEPT ![p] = "rs_unlock"]
    /\ UNCHANGED << otherv, cfgv, mono, wall, op, call, n, st, lk, lstart, res, avail, made,
                    aqv, hist >>

RSUnlock(p) ==
    /\ pc[p] = "rs_unlock"
    /\ Release(p)
    /\ res' = [res EXCEPT ![p] = "void"]
    /\ pc' = [pc EXCEPT ![p] = "done"]
    /\ UNCHANGED << otherv, cfgv, ino, content, mono, wall, op, call, n, st, lstart, avail, made, aqv, hist >>

\* ---------------------------------------------------------------- acquire
\* time_until_available on the value get_available_tokens returned:
\* (1.0 - available) / rate_ seconds, cut to whole milliseconds.
TimeUntilAvailable(a) == IF a >= 1000 THEN 0 ELSE (1000 - a) \div rate

\* The sleep_for argument of acquire's loop (ms).
SleepMs(wait_time) == IF wait_time > 0 THEN Min(wait_time, SleepCapMs) ELSE RetrySleepMs

\* acquire's timeout test that forgets max_wait = 0 means no limit.
AcquireTimedOutNoZero(p) == mono - astart[p] >= maxw[p] * TicksPerMs

\* acquire's timeout test: max_wait.count() > 0 and elapsed >= max_wait.
AcquireTimedOut(p) == maxw[p] > 0 /\ mono - astart[p] >= maxw[p] * TicksPerMs

AcqClock == AcqMs * TicksPerMs

\* acquire(k, w): start is taken and the first try_acquire begins.  Calls
\* start early enough for the deadline to lie within the horizon.
Acquire(p, k, w) ==
    /\ pc[p] = "idle"
    /\ made[p]
    /\ mono <= TicksPerMs
    /\ op' = [op EXCEPT ![p] = "acquire"]
    /\ n' = [n EXCEPT ![p] = k]
    /\ maxw' = [maxw EXCEPT ![p] = w]
    /\ astart' = [astart EXCEPT ![p] = mono]
    /\ OpenLock(p, "try")
    /\ UNCHANGED << otherv, cfgv, mono, wall, st, lk, res, avail, made, wake, hist >>

\* try_acquire has returned: return true, or return false on timeout, or go
\* on to time_until_available, which calls get_available_tokens.
AQCheck(p) ==
    /\ pc[p] = "aq_check"
    /\ IF res[p] = "true"
       THEN /\ pc' = [pc EXCEPT ![p] = "done"]
            /\ UNCHANGED << res, call, lstart, fd, ino, content >>
       ELSE IF AcquireTimedOut(p)
       THEN /\ pc' = [pc EXCEPT ![p] = "done"]
            /\ res' = [res EXCEPT ![p] = "false"]
            /\ UNCHANGED << call, lstart, fd, ino, content >>
       ELSE /\ res' = [res EXCEPT ![p] = "none"]
            /\ OpenLock(p, "avail")
    /\ UNCHANGED << otherv, cfgv, mono, wall, op, n, st, lk, avail, made, aqv, hist >>

\* get_available_tokens has returned: the wait is computed and the sleep
\* begins.  A sleep that would end beyond the horizon ends at the horizon,
\* where time passes uncounted.
AQSleep(p) ==
    /\ pc[p] = "aq_tua"
    /\ wake' = [wake EXCEPT ![p] =
                   Min(mono + SleepMs(TimeUntilAvailable(avail[p])) * TicksPerMs,
                       AcqClock)]
    /\ avail' = [avail EXCEPT ![p] = 0]
    /\ res' = [res EXCEPT ![p] = "none"]
    /\ pc' = [pc EXCEPT ![p] = "aq_sleep"]
    /\ UNCHANGED << otherv, cfgv, ino, content, mono, wall, op, call, n, st, fd, lk, lstart,
                    made, astart, maxw, hist >>

\* sleep_for is over: next attempt.
AQWake(p) ==
    /\ pc[p] = "aq_sleep"
    /\ mono >= wake[p]
    /\ wake' = [wake EXCEPT ![p] = 0]
    /\ OpenLock(p, "try")
    /\ UNCHANGED << otherv, cfgv, mono, wall, op, n, st, lk, res, avail, made, astart, maxw,
                    hist >>

\* The caller takes the result; the locals of the call are gone.
Return(p) ==
    /\ pc[p] = "done"
    /\ pc' = [pc EXCEPT ![p] = "idle"]
    /\ op' = [op EXCEPT ![p] = "none"]
    /\ call' = [call EXCEPT ![p] = "none"]
    /\ n' = [n EXCEPT ![p] = 0]
    /\ res' = [res EXCEPT ![p] = "none"]
    /\ avail' = [avail EXCEPT ![p] = 0]
    /\ astart' = [astart EXCEPT ![p] = 0]
    /\ maxw' = [maxw EXCEPT ![p] = 0]
    /\ wake' = [wake EXCEPT ![p] = 0]
    /\ UNCHANGED << otherv, cfgv, ino, content, mono, wall, st, fd, lk, lstart, made, hist >>

\* ------------------------------------------------------------ environment
\* Time passes on both clocks, up to a horizon.
TickTo(limit) ==
    /\ mono < limit
    /\ mono' = mono + 1
    /\ wall' = wall + 1
    /\ UNCHANGED << otherv, cfgv, ino, content, pc, op, call, n, st, fd, lk, lstart, res, avail,
                    made, aqv, hist >>

Tick == TickTo(MaxClock)

SeqTick == TickTo(SeqClock)

AcqTick == TickTo(AcqClock)

\* The system clock is set back; the steady clock is not.
Rewind ==
    /\ wall > 0
    /\ wall' \in 0 .. (wall - 1)
    /\ UNCHANGED << otherv, cfgv, ino, content, mono, pc, op, call, n, st, fd, lk, lstart, res,
                    avail, made, aqv, hist >>

\* cleanup_stale_files removes the state file (max_age is the caller's, so
\* any existing file may be old enough); open descriptors keep their inode.
CleanupStaleFiles ==
    /\ PathExists
    /\ hist.on => ~hist.removed
    /\ ino' = 0
    /\ content' = Absent
    /\ fd' = OffPath(fd)
    /\ hist' = IF hist.on THEN [hist EXCEPT !.removed = TRUE] ELSE hist
    /\ UNCHANGED << otherv, cfgv, mono, wall, pc, op, call, n, st, lk, lstart, res, avail,
                    made, aqv >>

\* A program of another format version rewrites the record in place.
OtherVersionWrite ==
    /\ PathExists
    /\ LoadOK(content)
    /\ content' = [content EXCEPT !.version = 2]
    /\ UNCHANGED << otherv, cfgv, ino, mono, wall, pc, op, call, n, st, fd, lk, lstart, res,
                    avail, made, aqv, hist >>

\* --------------------------------------------------------- specifications
\* Spec: the processes of Procs share one state file and call the
\* constructor, try_acquire, get_available_tokens and reset in any
\* interleaving, while time passes and the file may be removed or rewritten
\* by a program of another version.
LimiterStep(p) ==
    \/ Ctor(p)
    \/ CtorSave(p)
    \/ \E k \in 1 .. MaxReq : TryAcquire(p, k)
    \/ LkAcquire(p)
    \/ LkTimeout(p)
    \/ TALoad(p)
    \/ TASave(p)
    \/ TAUnlock(p)
    \/ GetAvailableTokens(p)
    \/ GALoad(p)
    \/ Reset(p)
    \/ RSSave(p)
    \/ RSUnlock(p)
    \/ Return(p)

Next ==
    \/ \E p \in Procs : LimiterStep(p)
    \/ Tick
    \/ CleanupStaleFiles
    \/ OtherVersionWrite

Spec == Init /\ [][Next]_vars

\* SpecSkew: one process runs every operation while the system clock moves
\* forwards and backwards.
Solo == {1}

SkewStep(p) ==
    \/ Ctor(p)
    \/ CtorSave(p)
    \/ \E k \in 0 .. MaxReq : TryAcquire(p, k)
    \/ LkAcquire(p)
    \/ TALoad(p)
    \/ TASave(p)
    \/ TAUnlock(p)
    \/ GetAvailableTokens(p)
    \/ GALoad(p)
    \/ Reset(p)
    \/ RSSave(p)
    \/ RSUnlock(p)
    \/ Return(p)

SkewInit ==
    /\ InitCommon
    /\ timeout \in LockTimeouts
    /\ hist = HistOff

SkewNext ==
    \/ \E p \in Solo : SkewStep(p)
    \/ SeqTick
    \/ Rewind
    \/ CleanupStaleFiles
    \/ OtherVersionWrite

SpecSkew == SkewInit /\ [][SkewNext]_vars

\* SpecSeq: one process constructs the limiter and calls try_acquire(1)
\* again and again while time passes; calls and grants are counted.
SeqStep(p) ==
    \/ Ctor(p)
    \/ CtorSave(p)
    \/ TryAcquire(p, 1)
    \/ LkAcquire(p)
    \/ TALoad(p)
    \/ TASave(p)
    \/ TAUnlock(p)
    \/ Return(p)

SeqInit ==
    /\ InitCommon
    /\ timeout \in LockTimeouts
    /\ hist = HistOn

SeqNext ==
    \/ \E p \in Solo : SeqStep(p)
    \/ SeqTick

SpecSeq == SeqInit /\ [][SeqNext]_vars

\* SpecBurst: the processes of Procs construct limiters on one path and
\* call try_acquire(1) concurrently while no time passes.
BurstStep(p) ==
    \/ Ctor(p)
    \/ CtorSave(p)
    \/ TryAcquire(p, 1)
    \/ LkAcquire(p)
    \/ LkTimeout(p)
    \/ TALoad(p)
    \/ TASave(p)
    \/ TAUnlock(p)
    \/ Return(p)

BurstNext == \E p \in Procs : BurstStep(p)

SpecBurst == SeqInit /\ [][BurstNext]_vars

\* SpecAcq: one process constructs the limiter and calls acquire, with and
\* without a limit on the wait, while time passes and the state file may be
\* removed once.  The operating system keeps the process running and time
\* passing.
AcqCall(p) ==
    \/ Ctor(p)
    \/ \E k \in 1 .. MaxReq, w \in Waits : Acquire(p, k, w)

AcqRun(p) ==
    \/ CtorSave(p)
    \/ LkAcquire(p)
    \/ TALoad(p)
    \/ TASave(p)
    \/ TAUnlock(p)
    \/ GALoad(p)
    \/ AQCheck(p)
    \/ AQSleep(p)
    \/ AQWake(p)
    \/ Return(p)

AcqNext ==
    \/ \E p \in Solo : AcqCall(p)
    \/ \E p \in Solo : AcqRun(p)
    \/ AcqTick
    \/ CleanupStaleFiles

SpecAcq ==
    /\ SeqInit
    /\ [][AcqNext]_vars
    /\ \A p \in Solo : WF_vars(AcqRun(p))
    /\ WF_vars(AcqTick)

\* ------------------------------------------------------- AtomicFileWriter
\* A destructor that never removes the temporary file.
DtorKeepsTemp(a) == FALSE

\* ~AtomicFileWriter's test: !committed_ and the temporary file exists.
DtorRemovesTemp(a) == ~a.committed /\ a.temp # -1

\* The target after rename(temp_path_, target_path_) succeeded.
Published(w) == [exists |-> TRUE, by |-> w, len |-> aw[w].temp, had |-> TRUE]

\* Constructor: the temporary file is created empty and kept open.
WCtor(w) ==
    /\ aw[w].pc = "none"
    /\ aw' = [aw EXCEPT ![w] = [NoWriter EXCEPT !.pc = "live", !.open = TRUE,
                                                 !.temp = 0]]
    /\ UNCHANGED << target, limv, kgv, shv, gdv, slv, chv >>

\* write: throws when the stream is not open, else appends to the
\* temporary file.
WWrite(w) ==
    /\ aw[w].pc = "live"
    /\ IF aw[w].open
       THEN /\ aw[w].temp < MaxChunks
            /\ aw' = [aw EXCEPT ![w].temp = @ + 1, ![w].wrote = TRUE,
                                ![w].res = "ok"]
       ELSE aw' = [aw EXCEPT ![w].res = "threw"]
    /\ UNCHANGED << target, limv, kgv, shv, gdv, slv, chv >>

\* abort: sets aborted_ and nothing else.
WAbort(w) ==
    /\ aw[w].pc = "live"
    /\ ~aw[w].aborted
    /\ aw' = [aw EXCEPT ![w].aborted = TRUE]
    /\ UNCHANGED << target, limv, kgv, shv, gdv, slv, chv >>

\* commit: throws when the stream is not open; else closes it and renames
\* the temporary file over the target.  Whether the platform carries out
\* the rename is the platform's choice; when it refuses, commit goes on to
\* its retry.
WCommit(w) ==
    /\ aw[w].pc = "live"
    /\ IF ~aw[w].open
       THEN /\ aw' = [aw EXCEPT ![w].commitCalled = TRUE, ![w].res = "threw"]
            /\ UNCHANGED target
       ELSE \E ok \in BOOLEAN :
              IF ok
              THEN /\ target' = Published(w)
                   /\ aw' = [aw EXCEPT ![w].open = FALSE, ![w].commitCalled = TRUE,
                                       ![w].flen = aw[w].temp, ![w].temp = -1,
                                       ![w].committed = TRUE, ![w].res = "ok"]
              ELSE /\ aw' = [aw EXCEPT ![w].open = FALSE, ![w].commitCalled = TRUE,
                                       ![w].flen = aw[w].temp,
                                       ![w].pc = "retry_remove"]
                   /\ UNCHANGED target
    /\ UNCHANGED << limv, kgv, shv, gdv, slv, chv >>

\* commit's retry, first half: remove(target_path_).  When that throws, the
\* temporary file is removed and the exception goes to the caller.
WRetryRemove(w) ==
    /\ aw[w].pc = "retry_remove"
    /\ \E ok \in BOOLEAN :
          IF ok
          THEN /\ target' = [target EXCEPT !.exists = FALSE]
               /\ aw' = [aw EXCEPT ![w].pc = "retry_rename"]
          ELSE /\ aw' = [aw EXCEPT ![w].pc = "live", ![w].temp = -1,
                                   ![w].res = "threw"]
               /\ UNCHANGED target
    /\ UNCHANGED << limv, kgv, shv, gdv, slv, chv >>

\* commit's retry, second half: the rename again.
WRetryRename(w) ==
    /\ aw[w].pc = "retry_rename"
    /\ \E ok \in BOOLEAN :
          IF ok
          THEN /\ target' = Published(w)
               /\ aw' = [aw EXCEPT ![w].pc = "live", ![w].temp = -1,
                                   ![w].committed = TRUE, ![w].res = "ok"]
          ELSE /\ aw' = [aw EXCEPT ![w].pc = "live", ![w].temp = -1,
                                   ![w].res = "threw"]
               /\ UNCHANGED target
    /\ UNCHANGED << limv, kgv, shv, gdv, slv, chv >>

\* Destructor: the stream is closed and an uncommitted temporary file is
\* removed.
WDtor(w) ==
    /\ aw[w].pc = "live"
    /\ aw' = [aw EXCEPT ![w].pc = "dead", ![w].open = FALSE,
                        ![w].temp = IF DtorRemovesTemp(aw[w]) THEN -1 ELSE @]
    /\ UNCHANGED << target, limv, kgv, shv, gdv, slv, chv >>

\* SpecWriter: the writers of Writers work on one target, which exists
\* beforehand or not, in any interleaving.
WriterStep(w) ==
    \/ WCtor(w)
    \/ WWrite(w)
    \/ WAbort(w)
    \/ WCommit(w)
    \/ WRetryRemove(w)
    \/ WRetryRename(w)
    \/ WDtor(w)

WriterInit ==
    /\ LimiterIdle
    /\ target \in {NoTarget, OldTarget}
    /\ aw = [w \in Writers |-> NoWriter]
    /\ GuardIdle
    /\ ScopedIdle
    /\ CacheIdle
    /\ KeysIdle
    /\ SharedIdle

WriterNext == \E w \in Writers : WriterStep(w)

SpecWriter == WriterInit /\ [][WriterNext]_vars

\* ------------------------------------------------ FileLock as an object
\* The FileLock objects of one process on one file.  Each constructor opens
\* a descriptor of its own, and flock locks belong to the open file
\* description, so the guards of one process exclude each other as those of
\* different processes do.

\* open() returns the lowest descriptor number not in use.
HasFreeFd == \E f \in Fds : fdt[f] = "closed"
FreeFd == CHOOSE f \in Fds : fdt[f] = "closed" /\ \A h \in Fds : fdt[h] = "closed" => f <= h

\* flock(f, m | LOCK_NB) would fail with EWOULDBLOCK.
FlockConflict(f, m) ==
    \E h \in Fds \ {f} : fdt[h] \in {"sh", "ex"} /\ (m = "ex" \/ fdt[h] = "ex")

Event(o, g, r) ==
    [op |-> o, g |-> g, was |-> gd[g].locked, ret |-> r, seq |-> 1 - gev.seq]

\* A move that leaves the source as it was.
MovedFromKeepsAll(d) == d

\* The source of a move afterwards: fd_ = -1, locked_ = false.
MovedFrom(d) == [d EXCEPT !.fd = 0, !.locked = FALSE]

\* unlock(): nothing when !locked_; else flock(LOCK_UN), close, fd_ = -1
\* when fd_ != -1, and locked_ = false.
UnlockedGuard(d) == IF d.locked THEN [d EXCEPT !.fd = 0, !.locked = FALSE] ELSE d
UnlockedFds(d) ==
    IF d.locked /\ d.fd # 0 THEN [fdt EXCEPT ![d.fd] = "closed"] ELSE fdt

\* Constructor up to open().
GCtor(g, t) ==
    /\ gd[g].st = "none"
    /\ HasFreeFd
    /\ gd' = [gd EXCEPT ![g] = [st |-> "waiting", locked |-> FALSE, type |-> t,
                                 fd |-> FreeFd]]
    /\ fdt' = [fdt EXCEPT ![FreeFd] = "open"]
    /\ UNCHANGED << gev, limv, kgv, shv, wrv, slv, chv >>

\* flock succeeded: locked_ = true.
GLock(g) ==
    /\ gd[g].st = "waiting"
    /\ ~FlockConflict(gd[g].fd, gd[g].type)
    /\ gd' = [gd EXCEPT ![g].st = "live", ![g].locked = TRUE]
    /\ fdt' = [fdt EXCEPT ![gd[g].fd] = gd[g].type]
    /\ UNCHANGED << gev, limv, kgv, shv, wrv, slv, chv >>

\* EWOULDBLOCK until the timeout: close and throw; no object comes to be.
GTimeout(g) ==
    /\ gd[g].st = "waiting"
    /\ FlockConflict(gd[g].fd, gd[g].type)
    /\ gd' = [gd EXCEPT ![g] = NoGuard]
    /\ fdt' = [fdt EXCEPT ![gd[g].fd] = "closed"]
    /\ UNCHANGED << gev, limv, kgv, shv, wrv, slv, chv >>

GUnlock(g) ==
    /\ gd[g].st = "live"
    /\ gd' = [gd EXCEPT ![g] = UnlockedGuard(gd[g])]
    /\ fdt' = UnlockedFds(gd[g])
    /\ gev' = Event("unlock", g, "void")
    /\ UNCHANGED << limv, kgv, shv, wrv, slv, chv >>

\* ~FileLock: unlock(), and the object is gone.
GDtor(g) ==
    /\ gd[g].st = "live"
    /\ gd' = [gd EXCEPT ![g] = NoGuard]
    /\ fdt' = UnlockedFds(gd[g])
    /\ gev' = Event("dtor", g, "void")
    /\ UNCHANGED << limv, kgv, shv, wrv, slv, chv >>

\* FileLock h(std::move(g)).
GMoveCtor(h, g) ==
    /\ gd[h].st = "none"
    /\ gd[g].st = "live"
    /\ gd' = [gd EXCEPT ![h] = gd[g], ![g] = MovedFrom(gd[g])]
    /\ UNCHANGED << fdt, gev, limv, kgv, shv, wrv, slv, chv >>

\* h = std::move(g): unlock() of h, then as the move constructor.
GMoveAssign(h, g) ==
    /\ h # g
    /\ gd[h].st = "live"
    /\ gd[g].st = "live"
    /\ gd' = [gd EXCEPT ![h] = gd[g], ![g] = MovedFrom(gd[g])]
    /\ fdt' = UnlockedFds(gd[h])
    /\ UNCHANGED << gev, limv, kgv, shv, wrv, slv, chv >>

\* try_lock_shared: false when locked_ or type_ is not EXCLUSIVE; else
\* flock(fd_, LOCK_SH | LOCK_NB), which fails on fd_ = -1.
GTryLockShared(g) ==
    /\ gd[g].st = "live"
    /\ IF gd[g].locked \/ gd[g].type # "ex"
       THEN /\ gev' = Event("try_lock_shared", g, "false")
            /\ UNCHANGED << gd, fdt >>
       ELSE IF gd[g].fd # 0 /\ ~FlockConflict(gd[g].fd, "sh")
       THEN /\ gev' = Event("try_lock_shared", g, "true")
            /\ gd' = [gd EXCEPT ![g].type = "sh"]
            /\ fdt' = [fdt EXCEPT ![gd[g].fd] = "sh"]
       ELSE /\ gev' = Event("try_lock_shared", g, "false")
            /\ UNCHANGED << gd, fdt >>
    /\ UNCHANGED << limv, kgv, shv, wrv, slv, chv >>

\* try_upgrade: false when !locked_ or type_ is not SHARED; else
\* flock(fd_, LOCK_EX | LOCK_NB).  A conversion that fails may or may not
\* have dropped the lock held before: flock converts by unlocking first.
GTryUpgrade(g) ==
    /\ gd[g].st = "live"
    /\ IF ~gd[g].locked \/ gd[g].type # "sh"
       THEN /\ gev' = Event("try_upgrade", g, "false")
            /\ UNCHANGED << gd, fdt >>
       ELSE IF ~FlockConflict(gd[g].fd, "ex")
       THEN /\ gev' = Event("try_upgrade", g, "true")
            /\ gd' = [gd EXCEPT ![g].type = "ex"]
            /\ fdt' = [fdt EXCEPT ![gd[g].fd] = "ex"]
       ELSE /\ gev' = Event("try_upgrade", g, "false")
            /\ \E kept \in BOOLEAN :
                  fdt' = [fdt EXCEPT ![gd[g].fd] = IF kept THEN @ ELSE "open"]
            /\ UNCHANGED gd
    /\ UNCHANGED << limv, kgv, shv, wrv, slv, chv >>

\* SpecGuard: FileLock objects on one file are constructed, moved,
\* converted, unlocked and destroyed in any order.
GuardStep(g) ==
    \/ \E t \in {"sh", "ex"} : GCtor(g, t)
    \/ GLock(g)
    \/ GTimeout(g)
    \/ GUnlock(g)
    \/ GDtor(g)
    \/ \E h \in Guards : GMoveCtor(h, g)
    \/ \E h \in Guards : GMoveAssign(h, g)
    \/ GTryLockShared(g)
    \/ GTryUpgrade(g)

GuardInit ==
    /\ LimiterIdle
    /\ WriterIdle
    /\ GuardIdle
    /\ ScopedIdle
    /\ CacheIdle
    /\ KeysIdle
    /\ SharedIdle

GuardNext == \E g \in Guards : GuardStep(g)

SpecGuard == GuardInit /\ [][GuardNext]_vars

\* --------------------------------------------------------- ScopedLockFile
\* Constructor: start is taken and the loop is entered.
SCtor(h) ==
    /\ sl[h].st = "none"
    /\ sl' = [sl EXCEPT ![h].st = "opening"]
    /\ UNCHANGED << lockfile, limv, kgv, shv, wrv, gdv, chv >>

\* std::ofstream(lock_file_path_, out | app): the file is created when it
\* is absent and opened when it is there; the pid is appended.
SOpen(h) ==
    /\ sl[h].st = "opening"
    /\ lockfile.exists => lockfile.pids < MaxPids
    /\ lockfile' = [exists |-> TRUE,
                    pids |-> IF lockfile.exists THEN lockfile.pids + 1 ELSE 1]
    /\ sl' = [sl EXCEPT ![h].st = "opened"]
    /\ UNCHANGED << limv, kgv, shv, wrv, gdv, chv >>

\* exists(lock_file_path_): locked_ = true and the constructor returns;
\* else on to the timeout test.
SCheck(h) ==
    /\ sl[h].st = "opened"
    /\ sl' = [sl EXCEPT ![h] = IF lockfile.exists
                                THEN [st |-> "live", locked |-> TRUE]
                                ELSE [st |-> "failed", locked |-> FALSE]]
    /\ UNCHANGED << lockfile, limv, kgv, shv, wrv, gdv, chv >>

\* elapsed >= timeout_ms: throw, and no object comes to be; else sleep and
\* go round the loop.
SRetry(h) ==
    /\ sl[h].st = "failed"
    /\ \E timedOut \in BOOLEAN :
          sl' = [sl EXCEPT ![h].st = IF timedOut THEN "none" ELSE "opening"]
    /\ UNCHANGED << lockfile, limv, kgv, shv, wrv, gdv, chv >>

\* unlock(): when locked_, remove(lock_file_path_) and locked_ = false.
SUnlock(h) ==
    /\ sl[h].st = "live"
    /\ lockfile' = IF sl[h].locked THEN NoLockFile ELSE lockfile
    /\ sl' = [sl EXCEPT ![h].locked = FALSE]
    /\ UNCHANGED << limv, kgv, shv, wrv, gdv, chv >>

\* ~ScopedLockFile: unlock(), and the object is gone.
SDtor(h) ==
    /\ sl[h].st = "live"
    /\ lockfile' = IF sl[h].locked THEN NoLockFile ELSE lockfile
    /\ sl' = [sl EXCEPT ![h] = NoHolder]
    /\ UNCHANGED << limv, kgv, shv, wrv, gdv, chv >>

\* SpecScoped: ScopedLockFile objects for one path are constructed,
\* unlocked and destroyed by concurrent callers.
ScopedStep(h) ==
    \/ SCtor(h)
    \/ SOpen(h)
    \/ SCheck(h)
    \/ SRetry(h)
    \/ SUnlock(h)
    \/ SDtor(h)

ScopedInit ==
    /\ LimiterIdle
    /\ WriterIdle
    /\ GuardIdle
    /\ ScopedIdle
    /\ CacheIdle
    /\ KeysIdle
    /\ SharedIdle

ScopedNext == \E h \in Holders : ScopedStep(h)

SpecScoped == ScopedInit /\ [][ScopedNext]_vars

\* ---------------------------------------------------------- ResponseCache
ExpHours == {1, 2}          \* expiration_hours_ values drawn

IsXDigit(c) == c \in HexChars

\* get_cache_path's loop: every character of the key is a hex digit.
ValidKey(k) == \A i \in 1 .. Len(k) : IsXDigit(k[i])

\* now - last_write_time, in ticks, and cut to whole hours.
Age(e) == wall - e.mtime
AgeHours(e) == Age(e) \div TicksPerHour

\* is_expired: age.count() >= expiration_hours_.
IsExpired(e) == AgeHours(e) >= exph

\* has_valid_cache on a well-formed key.
HasValid(k) == cache[k].exists /\ ~IsExpired(cache[k])

\* get_stats: the number of .json files and their total size.
SizeOf(r) == IF r = "S" THEN 2 ELSE 1

RECURSIVE SumBytes(_, _)
SumBytes(c, ks) ==
    IF ks = {} THEN 0
    ELSE LET k == CHOOSE x \in ks : TRUE
         IN (IF c[k].exists THEN SizeOf(c[k].payload) ELSE 0) + SumBytes(c, ks \ {k})

\* The file of key k is <k>.json; path::extension() of ".json", the file of
\* the empty key, is empty, so the directory scans pass over that file.
HasJsonExtension(k) == k # << >>

ScannedKeys == {k \in EntryKeys : HasJsonExtension(k)}

Count(c) == Cardinality({k \in ScannedKeys : c[k].exists})
Bytes(c) == SumBytes(c, ScannedKeys)

\* clean_expired: every .json file that is_expired is removed.
CleanExpired(c) ==
    [k \in EntryKeys |->
        IF HasJsonExtension(k) /\ c[k].exists /\ IsExpired(c[k]) THEN NoEntry ELSE c[k]]

Call(o, k, r, cn) ==
    [op |-> o, key |-> k, ret |-> r, cnt |-> cn,
     age |-> IF k \in EntryKeys /\ cache[k].exists THEN Age(cache[k]) ELSE -1,
     had |-> IF k \in EntryKeys /\ cache[k].exists THEN cache[k].payload ELSE ""]

CHas(k) ==
    /\ cres' = Call("has", k,
                    IF ~ValidKey(k) THEN "threw"
                    ELSE IF HasValid(k) THEN "true" ELSE "false", 0)
    /\ UNCHANGED << cache, exph, limv, kgv, shv, wrv, gdv, slv >>

\* get: the payload on a hit, the empty string ("miss") otherwise.
CGet(k) ==
    /\ cres' = Call("get", k,
                    IF ~ValidKey(k) THEN "threw"
                    ELSE IF HasValid(k) THEN cache[k].payload ELSE "miss", 0)
    /\ UNCHANGED << cache, exph, limv, kgv, shv, wrv, gdv, slv >>

\* put: at the entry ceiling the expired entries are swept and, when the
\* cache is still full, the call returns; over the size ceiling it returns;
\* only then is the key validated and the file written and renamed.
CPut(k, r) ==
    LET swept == IF Count(cache) >= MaxEntries THEN CleanExpired(cache) ELSE cache
    IN /\ IF Count(swept) >= MaxEntries \/ Bytes(swept) > MaxBytes
          THEN /\ cache' = swept
               /\ cres' = Call("put", k, "skipped", 0)
          ELSE IF ~ValidKey(k)
          THEN /\ cache' = swept
               /\ cres' = Call("put", k, "threw", 0)
          ELSE /\ cache' = [swept EXCEPT ![k] =
                               [exists |-> TRUE, payload |-> r, mtime |-> wall]]
               /\ cres' = Call("put", k, "stored", 0)
       /\ UNCHANGED << exph, limv, kgv, shv, wrv, gdv, slv >>

CClean ==
    /\ cache' = CleanExpired(cache)
    /\ cres' = Call("clean", << >>, "void", Count(cache) - Count(CleanExpired(cache)))
    /\ UNCHANGED << exph, limv, kgv, shv, wrv, gdv, slv >>

\* clear: every .json file is removed.
CClear ==
    /\ cache' = [k \in EntryKeys |-> IF HasJsonExtension(k) THEN NoEntry ELSE cache[k]]
    /\ cres' = Call("clear", << >>, "void", Count(cache))
    /\ UNCHANGED << exph, limv, kgv, shv, wrv, gdv, slv >>

CacheTick == TickTo(CacheClock)

\* SpecCache: one process calls the cache operations with well-formed and
\* ill-formed keys while time passes.
CacheCall ==
    \/ \E k \in Keys : CHas(k)
    \/ \E k \in Keys : CGet(k)
    \/ \E k \in Keys, r \in Payloads : CPut(k, r)
    \/ CClean
    \/ CClear

CacheInit ==
    /\ LimiterIdle
    /\ WriterIdle
    /\ GuardIdle
    /\ ScopedIdle
    /\ cache = [k \in EntryKeys |-> NoEntry]
    /\ exph \in ExpHours
    /\ cres = NoCall
    /\ KeysIdle
    /\ SharedIdle

CacheNext ==
    \/ CacheCall
    \/ CacheTick

SpecCache == CacheInit /\ [][CacheNext]_vars

\* SpecNames: one process calls put with keys of every kind, well-formed,
\* ill-formed and of odd length, and clears the cache.
NamesNext ==
    \/ \E k \in AnyKeys, r \in Payloads : CPut(k, r)
    \/ CClear

SpecNames == CacheInit /\ [][NamesNext]_vars

\* ------------------------------------------------------------ generate_key
\* The characters of the fields: one ordinary character and the separator.
FieldChars == {"a", "|"}

RECURSIVE StringsUpTo(_)
StringsUpTo(len) ==
    IF len = 0 THEN { << >> }
    ELSE LET shorter == StringsUpTo(len - 1)
         IN shorter \cup {Append(t, c) : t \in shorter, c \in FieldChars}

Fields == StringsUpTo(MaxField)
Triples == Fields \X Fields \X Fields

\* combined = prompt + "|" + model + "|" + system_prompt
Combined(t) == t[1] \o << "|" >> \o t[2] \o << "|" >> \o t[3]

\* SHA256 as an injective map: the string read as a number with the digits
\* 1 and 2 to the base 3, laid out in DigestBytes bytes.
CharCode(c) == IF c = "a" THEN 1 ELSE 2

RECURSIVE StringNumber(_)
StringNumber(str) ==
    IF str = << >> THEN 0 ELSE CharCode(Head(str)) + 3 * StringNumber(Tail(str))

RECURSIVE Power(_, _)
Power(b, e) == IF e = 0 THEN 1 ELSE b * Power(b, e - 1)

SHA256(str) ==
    [i \in 1 .. DigestBytes |-> (StringNumber(str) \div Power(256, i - 1)) % 256]

\* ss << std::hex << std::setw(2) << std::setfill('0') << int(hash[i])
LowerHex ==
    << "0", "1", "2", "3", "4", "5", "6", "7", "8", "9", "a", "b", "c", "d", "e", "f" >>

HexByte(b) == << LowerHex[(b \div 16) + 1], LowerHex[(b % 16) + 1] >>

RECURSIVE HexString(_)
HexString(hash) ==
    IF hash = << >> THEN << >> ELSE HexByte(Head(hash)) \o HexString(Tail(hash))

GenerateKey(t) == HexString(SHA256(Combined(t)))

\* generate_key(prompt, model, system_prompt) is called for triple i.
Generate(i) ==
    /\ kout[i] = << >>
    /\ kout' = [kout EXCEPT ![i] = GenerateKey(kin[i])]
    /\ UNCHANGED << kin, limv, wrv, gdv, slv, chv, shv >>

\* SpecKeys: generate_key is called for two triples of strings up to
\* MaxField long.
KeysInit ==
    /\ LimiterIdle
    /\ WriterIdle
    /\ GuardIdle
    /\ ScopedIdle
    /\ CacheIdle
    /\ SharedIdle
    /\ kin \in Triples \X Triples
    /\ kout = << << >>, << >> >>

KeysNext == \E i \in 1 .. 2 : Generate(i)

SpecKeys == KeysInit /\ [][KeysNext]_vars

\* ------------------------------------ ResponseCache on a shared directory
\* The processes of CProcs run put, get, clear and clean_expired on one
\* cache directory, one file-system call to the step.  A directory scan
\* returns the entries there were when it began.

\* cache_data.dump(2) of a payload, as the bytes of the file.
Encode(r) == IF r = "S" THEN << "S", "S" >> ELSE << "R" >>

CompleteFiles == {Encode(r) : r \in Payloads}

\* What `file >> cache_data; cache_data["response"]` yields on a complete file.
Decode(data) == CHOOSE r \in Payloads : Encode(r) = data

\* write() of bytes at offset 0 of a file holding old.
Overwrite(old, bytes) == bytes \o SubSeq(old, Len(bytes) + 1, Len(old))

\* get_stats on the directory d.
SCount(d) == Cardinality({k \in GoodKeys : d[k].exists})

RECURSIVE SSumBytes(_, _)
SSumBytes(d, ks) ==
    IF ks = {} THEN 0
    ELSE LET k == CHOOSE x \in ks : TRUE
         IN (IF d[k].exists THEN Len(d[k].data) ELSE 0) + SSumBytes(d, ks \ {k})

SBytes(d) == SSumBytes(d, GoodKeys)

\* The entries clean_expired finds expired.
SExpired(d) == {k \in GoodKeys : d[k].exists /\ IsExpired(d[k])}

\* remove() of the entries of ks: descriptors open on them name no path.
Removed(d, ks) == [k \in GoodKeys |-> IF k \in ks THEN NoFile ELSE d[k]]

Unlinked(c, ks) ==
    [q \in CProcs |->
        IF c[q].fd = "ent" /\ c[q].key \in ks THEN [c[q] EXCEPT !.fd = "gone"] ELSE c[q]]

Finish(t, r) == [t EXCEPT !.pc = "done", !.ret = r]

\* put, up to get_cache_path: get_stats; at the entry ceiling clean_expired
\* and get_stats again; return when still at it, or over the size ceiling.
SPut(p, k, r) ==
    /\ cp[p].pc = "idle"
    /\ LET ks == IF SCount(dent) >= MaxEntries THEN SExpired(dent) ELSE {}
           swept == Removed(dent, ks)
           task == [NoTask EXCEPT !.op = "put", !.key = k, !.val = r]
       IN /\ dent' = swept
          /\ cp' = [Unlinked(cp, ks) EXCEPT ![p] =
                       IF SCount(swept) >= MaxEntries \/ SBytes(swept) > MaxBytes
                       THEN Finish(task, "skipped")
                       ELSE [task EXCEPT !.pc = "put_open"]]
    /\ UNCHANGED << dtmp, limv, wrv, gdv, slv, chv, kgv >>

\* std::ofstream file(temp_path): the temporary file of the key is created,
\* or cut to nothing when it is there already.
SPutOpen(p) ==
    /\ cp[p].pc = "put_open"
    /\ dtmp' = [dtmp EXCEPT ![cp[p].key] =
                    [exists |-> TRUE, data |-> << >>, mtime |-> wall]]
    /\ cp' = [cp EXCEPT ![p].pc = "put_write", ![p].fd = "tmp"]
    /\ UNCHANGED << dent, limv, wrv, gdv, slv, chv, kgv >>

\* file << cache_data.dump(2); file.close(): the bytes go to the file the
\* stream is open on, wherever that file is by now.
SPutWrite(p) ==
    /\ cp[p].pc = "put_write"
    /\ LET k == cp[p].key
           bytes == Encode(cp[p].val)
       IN /\ dtmp' = IF cp[p].fd = "tmp"
                      THEN [dtmp EXCEPT ![k].data = Overwrite(@, bytes), ![k].mtime = wall]
                      ELSE dtmp
          /\ dent' = IF cp[p].fd = "ent"
                      THEN [dent EXCEPT ![k].data = Overwrite(@, bytes), ![k].mtime = wall]
                      ELSE dent
    /\ cp' = [cp EXCEPT ![p].pc = "put_rename", ![p].fd = "none"]
    /\ UNCHANGED << limv, wrv, gdv, slv, chv, kgv >>

\* std::filesystem::rename(temp_path, path); it throws when the temporary
\* file is not there, which put catches and logs.
SPutRename(p) ==
    /\ cp[p].pc = "put_rename"
    /\ LET k == cp[p].key IN
       IF dtmp[k].exists
       THEN /\ dent' = [dent EXCEPT ![k] = dtmp[k]]
            /\ dtmp' = [dtmp EXCEPT ![k] = NoFile]
            /\ cp' = [q \in CProcs |->
                        IF q = p THEN Finish(cp[p], "stored")
                        ELSE IF cp[q].key = k /\ cp[q].fd = "tmp"
                        THEN [cp[q] EXCEPT !.fd = "ent"]
                        ELSE IF cp[q].key = k /\ cp[q].fd = "ent"
                        THEN [cp[q] EXCEPT !.fd = "gone"]
                        ELSE cp[q]]
       ELSE /\ cp' = [cp EXCEPT ![p] = Finish(@, "failed")]
            /\ UNCHANGED << dent, dtmp >>
    /\ UNCHANGED << limv, wrv, gdv, slv, chv, kgv >>

\* get, up to has_valid_cache's exists(path).
SGet(p, k) ==
    /\ cp[p].pc = "idle"
    /\ LET task == [NoTask EXCEPT !.op = "get", !.key = k] IN
       cp' = [cp EXCEPT ![p] =
                 IF dent[k].exists THEN [task EXCEPT !.pc = "get_age"]
                 ELSE Finish([task EXCEPT !.misses = 1], "miss")]
    /\ UNCHANGED << dent, dtmp, limv, wrv, gdv, slv, chv, kgv >>

\* has_valid_cache's is_expired(path): last_write_time throws when the file
\* is not there, and nothing up to the caller of get catches it.
SGetAge(p) ==
    /\ cp[p].pc = "get_age"
    /\ LET k == cp[p].key IN
       cp' = [cp EXCEPT ![p] =
                 IF ~dent[k].exists THEN Finish(@, "threw")
                 ELSE IF IsExpired(dent[k]) THEN Finish([@ EXCEPT !.misses = 1], "miss")
                 ELSE [@ EXCEPT !.pc = "get_read"]]
    /\ UNCHANGED << dent, dtmp, limv, wrv, gdv, slv, chv, kgv >>

\* get's try block: a file that does not open, or does not parse, is a miss.
SGetRead(p) ==
    /\ cp[p].pc = "get_read"
    /\ LET k == cp[p].key IN
       cp' = [cp EXCEPT ![p] =
                 IF dent[k].exists /\ dent[k].data \in CompleteFiles
                 THEN Finish(@, Decode(dent[k].data))
                 ELSE Finish([@ EXCEPT !.misses = 1], "miss")]
    /\ UNCHANGED << dent, dtmp, limv, wrv, gdv, slv, chv, kgv >>

\* clear / clean_expired: the directory scan begins.
SScan(p, o) ==
    /\ cp[p].pc = "idle"
    /\ cp' = [cp EXCEPT ![p] =
                 [NoTask EXCEPT !.op = o, !.pc = "scan",
                                !.todo = {k \in GoodKeys : dent[k].exists}]]
    /\ UNCHANGED << dent, dtmp, limv, wrv, gdv, slv, chv, kgv >>

\* clear's loop body: remove(entry.path()); count++.  remove returns false
\* for a file that is not there and the count goes up all the same.
SClearStep(p, k) ==
    /\ cp[p].pc = "scan" /\ cp[p].op = "clear"
    /\ k \in cp[p].todo
    /\ dent' = Removed(dent, {k})
    /\ cp' = [Unlinked(cp, {k}) EXCEPT
                 ![p].todo = @ \ {k},
                 ![p].cnt = @ + 1,
                 ![p].removed = IF dent[k].exists THEN @ + 1 ELSE @]
    /\ UNCHANGED << dtmp, limv, wrv, gdv, slv, chv, kgv >>

\* clean_expired's loop body, first half: is_expired(entry.path()), which
\* throws for a file that is not there and so ends the loop.
SCleanCheck(p, k) ==
    /\ cp[p].pc = "scan" /\ cp[p].op = "clean"
    /\ k \in cp[p].todo
    /\ cp' = [cp EXCEPT ![p] =
                 IF ~dent[k].exists THEN [@ EXCEPT !.todo = {}]
                 ELSE IF IsExpired(dent[k]) THEN [@ EXCEPT !.pc = "scan_remove", !.key = k]
                 ELSE [@ EXCEPT !.todo = @ \ {k}]]
    /\ UNCHANGED << dent, dtmp, limv, wrv, gdv, slv, chv, kgv >>

\* Second half: remove(entry.path()); count++, as in clear.
SCleanRemove(p) ==
    /\ cp[p].pc = "scan_remove"
    /\ LET k == cp[p].key IN
       /\ dent' = Removed(dent, {k})
       /\ cp' = [Unlinked(cp, {k}) EXCEPT
                    ![p].pc = "scan",
                    ![p].key = << >>,
                    ![p].todo = @ \ {k},
                    ![p].cnt = @ + 1,
                    ![p].removed = IF dent[k].exists THEN @ + 1 ELSE @]
    /\ UNCHANGED << dtmp, limv, wrv, gdv, slv, chv, kgv >>

\* The scan is over: return count.
SScanEnd(p) ==
    /\ cp[p].pc = "scan"
    /\ cp[p].todo = {}
    /\ cp' = [cp EXCEPT ![p] = Finish(@, "void")]
    /\ UNCHANGED << dent, dtmp, limv, wrv, gdv, slv, chv, kgv >>

\* The caller has the result.
SReturn(p) ==
    /\ cp[p].pc = "done"
    /\ cp' = [cp EXCEPT ![p] = NoTask]
    /\ UNCHANGED << dent, dtmp, limv, wrv, gdv, slv, chv, kgv >>

\* SpecShared: two processes put, get and clear in one cache directory in
\* any interleaving.
SharedStep(p) ==
    \/ \E k \in GoodKeys, r \in Payloads : SPut(p, k, r)
    \/ SPutOpen(p)
    \/ SPutWrite(p)
    \/ SPutRename(p)
    \/ \E k \in GoodKeys : SGet(p, k)
    \/ SGetAge(p)
    \/ SGetRead(p)
    \/ SScan(p, "clear")
    \/ \E k \in GoodKeys : SClearStep(p, k)
    \/ SScanEnd(p)
    \/ SReturn(p)

SharedInit ==
    /\ LimiterIdle
    /\ WriterIdle
    /\ GuardIdle
    /\ ScopedIdle
    /\ cache = [k \in EntryKeys |-> NoEntry]
    /\ exph \in ExpHours
    /\ cres = NoCall
    /\ KeysIdle
    /\ dent = [k \in GoodKeys |-> NoFile]
    /\ dtmp = [k \in GoodKeys |-> NoFile]
    /\ cp = [p \in CProcs |-> NoTask]

SharedNext == \E p \in CProcs : SharedStep(p)

SpecShared == SharedInit /\ [][SharedNext]_vars

\* The directories a run of put calls leaves behind: the entry written
\* last was admitted by both ceilings.
RECURSIVE PutsReach(_)
PutsReach(d) ==
    \/ SCount(d) = 0
    \/ \E k \in GoodKeys :
          /\ d[k].exists
          /\ SCount(Removed(d, {k})) < MaxEntries
          /\ SBytes(Removed(d, {k})) <= MaxBytes
          /\ PutsReach(Removed(d, {k}))

StoredFiles == {[exists |-> TRUE, data |-> Encode(r), mtime |-> 0] : r \in Payloads}

\* SpecSweep: two processes clear, sweep and read a cache directory that
\* holds entries stored earlier, in any interleaving, while time passes.
SweepStep(p) ==
    \/ \E o \in {"clear", "clean"} : SScan(p, o)
    \/ \E k \in GoodKeys : SClearStep(p, k)
    \/ \E k \in GoodKeys : SCleanCheck(p, k)
    \/ SCleanRemove(p)
    \/ SScanEnd(p)
    \/ \E k \in GoodKeys : SGet(p, k)
    \/ SGetAge(p)
    \/ SGetRead(p)
    \/ SReturn(p)

SweepTick == TickTo(CacheClock)

SweepInit ==
    /\ LimiterIdle
    /\ WriterIdle
    /\ GuardIdle
    /\ ScopedIdle
    /\ cache = [k \in EntryKeys |-> NoEntry]
    /\ exph \in ExpHours
    /\ cres = NoCall
    /\ KeysIdle
    /\ dent \in {d \in [GoodKeys -> StoredFiles \cup {NoFile}] : PutsReach(d)}
    /\ dtmp = [k \in GoodKeys |-> NoFile]
    /\ cp = [p \in CProcs |-> NoTask]

SweepNext ==
    \/ \E p \in CProcs : SweepStep(p)
    \/ SweepTick

SpecSweep == SweepInit /\ [][SweepNext]_vars

\* ------------------------------------------------------------------ claims
\* C1 (SpecSeq).  Sequential burst bound: on a bucket created full, while
\* the millisecond clock has not moved, the k-th try_acquire(1) of the one
\* process returns true exactly when k <= burst_size, and never have more
\* than burst_size calls succeeded.
C1_SequentialBurst ==
    NowMs = 0 =>
        /\ hist.grants <= burst
        /\ \A p \in Solo :
              (pc[p] = "done" /\ op[p] = "try") =>
                  (res[p] = "true" <=> hist.calls <= burst)

\* The call after the burst has been denied.
C1_Witness ==
    \E p \in Solo :
        /\ NowMs = 0
        /\ pc[p] = "done" /\ op[p] = "try" /\ res[p] = "false"
        /\ hist.calls = burst + 1
        /\ hist.grants = burst

\* C2 (SpecBurst).  Global rate bound: with no time elapsing, the
\* try_acquire(1) calls of all processes sharing the state file that have
\* returned true never number more than burst_size.
C2_GlobalBurst == hist.grants <= burst

\* C3 (Spec).  Every write of the state file (constructor, try_acquire,
\* reset) is made by a process that holds an exclusive FileLock at that
\* moment.
WritesState(p) ==
    /\ pc[p] \in {"ctor_save", "ta_save", "rs_save"}
    /\ pc'[p] # pc[p]

C3_WritesUnderLock == [][\A p \in Procs : WritesState(p) => lk[p] = "ex"]_vars

\* C4 (Spec).  FileLock guards on the state-file path: an EXCLUSIVE guard is
\* never held together with another guard, EXCLUSIVE or SHARED.
C4_LockExclusion ==
    \A p, q \in Procs :
        (p # q /\ lk[p] = "ex") => lk[q] = "none"

\* C5 (SpecSkew).  Stored-state invariant: whatever the clock does, the
\* tokens of the persisted state are within 0 .. burst_size.
C5_TokensInRange ==
    (PathExists /\ content.size = "full") =>
        /\ 0 <= content.tokens
        /\ content.tokens <= content.burst_size * 1000
        /\ content.burst_size = burst

\* A try_acquire has loaded a state stamped later than its clock reading
\* and is about to save.
C5_Witness ==
    \E p \in Solo :
        /\ pc[p] = "ta_save"
        /\ PathExists /\ content.size = "full"
        /\ content.last_update_ms > st[p].last_update_ms

\* C6 (SpecSkew).  The value returned by get_available_tokens is within
\* 0 .. burst_size.
C6_AvailInRange ==
    \A p \in Solo :
        (pc[p] = "done" /\ op[p] = "avail") =>
            (0 <= avail[p] /\ avail[p] <= burst * 1000)

\* C7 (Spec).  Fail-closed: a try_acquire that gives up on the lock, or that
\* finds the file missing, truncated, of another version, or short of
\* tokens, returns false to its caller, lets no exception out and leaves
\* the stored state as it is; and a try_acquire writes the state only when
\* it returns true.
GivesUpLock(p) ==
    pc[p] = "lk_wait" /\ pc'[p] # "lk_wait" /\ lk'[p] = "none"

LoadsUnusable(p) ==
    /\ pc[p] = "ta_load" /\ pc'[p] # "ta_load"
    /\ \/ ~PathExists
       \/ content.size # "full"
       \/ content.version # 1
       \/ UpdateTokens(content, NowMs).tokens < n[p] * 1000

C7_FailClosed ==
    [][\A p \in Procs :
          /\ (op[p] = "try" /\ (GivesUpLock(p) \/ LoadsUnusable(p))) =>
                 /\ pc'[p] = "done"
                 /\ res'[p] = "false"
                 /\ content' = content
                 /\ ino' = ino
          /\ (op[p] = "try" /\ pc[p] # "done" /\ pc'[p] = "done") =>
                 res'[p] \in {"true", "false"}
          /\ (op[p] = "try" /\ (content' # content \/ ino' # ino)
                /\ pc'[p] # pc[p] /\ pc[p] # "idle") =>
                 res'[p] = "true"]_vars

\* A try_acquire has been denied on a record of another version.
C7_Witness ==
    \E p \in Procs :
        /\ pc[p] = "done" /\ op[p] = "try" /\ res[p] = "false"
        /\ PathExists /\ content.size = "full" /\ content.version = 2

\* C8 (SpecSeq), as claimed.  After a try_acquire(1) denied for lack of
\* tokens, a try_acquire(1) that reads the clock at least 1/rate seconds
\* later, with no grant in between, is granted.
ReadsClock(p) == pc[p] = "ta_load" /\ pc'[p] # "ta_load" /\ n[p] = 1

DenyMs == hist.denyAt \div TicksPerMs

C9_LazyRecreation ==
    \A p \in Solo :
        (op[p] = "acquire" /\ n[p] = 1 /\ maxw[p] = 0)
            ~> (pc[p] = "done" /\ res[p] = "true")

\* C10 (SpecAcq).  acquire returns true only on a grant of one of its
\* try_acquire calls, returns false only with max_wait > 0 and at least
\* max_wait elapsed since it started, and with max_wait > 0 it terminates.
AcquireReturns(p) == op[p] = "acquire" /\ pc[p] # "done" /\ pc'[p] = "done"

C10_AcquireOutcome ==
    /\ [][\A p \in Solo :
            AcquireReturns(p) =>
                /\ pc[p] = "aq_check"
                /\ res'[p] \in {"true", "false"}
                /\ res'[p] = "true" => res[p] = "true"
                /\ res'[p] = "false" =>
                      /\ maxw[p] > 0
                      /\ mono - astart[p] >= maxw[p] * TicksPerMs]_vars
    /\ [][\A p \in Solo :
            (op[p] = "acquire" /\ res[p] # "true" /\ res'[p] = "true") =>
                (pc[p] = "ta_save" /\ content' = st[p])]_vars
    /\ \A p \in Solo :
          (op[p] = "acquire" /\ maxw[p] > 0) ~> (pc[p] = "done")

\* An acquire with a limit has timed out after its try_acquire was denied.
C10_Witness ==
    \E p \in Solo :
        /\ pc[p] = "done" /\ op[p] = "acquire" /\ res[p] = "false"
        /\ maxw[p] > 0
        /\ mono - astart[p] >= maxw[p] * TicksPerMs

\* C11 (SpecWriter).  Atomic publication: a reader of the target path sees
\* the complete previous content or the complete content a writer
\* committed, never a part of it, and never finds the target missing once
\* the path has been bound.
C11_AtomicPublication ==
    /\ target.had => target.exists
    /\ (target.exists /\ target.by # 0) => target.len = aw[target.by].flen

C13_AbortIsFinal ==
    [][\A w \in Writers :
          (aw[w].aborted /\ aw'[w] # aw[w]) => target' = target]_vars

\* C14 (SpecBurst).  A FileLock constructed with timeout_ms = 0 never gives
\* up with a timeout error while another holder has the lock.
C14_ZeroTimeoutWaits ==
    [][\A p \in Procs : timeout = 0 => ~GivesUpLock(p)]_vars

\* C15 (SpecGuard).  try_lock_shared on a guard holding an EXCLUSIVE lock
\* returns true and leaves it holding a SHARED lock; try_upgrade on a guard
\* holding the only SHARED lock returns true and leaves it holding an
\* EXCLUSIVE lock.
Converts(g, o) == gev' # gev /\ gev'.g = g /\ gev'.op = o

C15_Conversions ==
    [][\A g \in Guards :
          /\ (Converts(g, "try_lock_shared") /\ gd[g].locked /\ gd[g].type = "ex") =>
                 /\ gev'.ret = "true"
                 /\ gd'[g].locked /\ gd'[g].type = "sh"
                 /\ fdt'[gd[g].fd] = "sh"
          /\ (/\ Converts(g, "try_upgrade")
              /\ gd[g].locked /\ gd[g].type = "sh" /\ fdt[gd[g].fd] = "sh"
              /\ ~FlockConflict(gd[g].fd, "ex")) =>
                 /\ gev'.ret = "true"
                 /\ gd'[g].locked /\ gd'[g].type = "ex"
                 /\ fdt'[gd[g].fd] = "ex"]_vars

\* C16 (SpecGuard).  unlock() and the destructor never fail and leave the
\* guard not locked; on a guard that is not locked (already unlocked, or
\* moved from) they change no descriptor; on a locked guard they close its
\* descriptor, which frees the lock; and they touch no other guard nor the
\* descriptor of one.
Unlocks(g) == gev' # gev /\ gev'.g = g /\ gev'.op \in {"unlock", "dtor"}

C16_UnlockIdempotent ==
    [][\A g \in Guards :
          Unlocks(g) =>
              /\ gev'.ret = "void"
              /\ ~gd'[g].locked
              /\ ~gd[g].locked => fdt' = fdt
              /\ (gd[g].locked /\ gd[g].fd # 0) => fdt'[gd[g].fd] = "closed"
              /\ \A h \in Guards \ {g} :
                    /\ gd'[h] = gd[h]
                    /\ gd[h].fd # 0 => fdt'[gd[h].fd] = fdt[gd[h].fd]]_vars

\* unlock() has been called on a guard that was not locked, moved from into
\* a guard that still holds the lock.
C16_Witness ==
    /\ gev.op = "unlock" /\ ~gev.was
    /\ gd[gev.g].st = "live" /\ gd[gev.g].fd = 0
    /\ \E h \in Guards : gd[h].st = "live" /\ gd[h].locked /\ fdt[gd[h].fd] = "ex"

\* C17 (SpecScoped).  Two ScopedLockFile objects for one path are never
\* both held, and the lock file exists for as long as one is held.
C17_ScopedMutex ==
    /\ Cardinality({h \in Holders : sl[h].locked}) <= 1
    /\ (\E h \in Holders : sl[h].locked) => lockfile.exists

\* C18 (SpecCache).  Round trip with expiry: get and has_valid_cache on a
\* stored entry report a hit, with the payload stored, as long as the age
\* of the entry does not exceed expiration_hours, and a miss once it does.
CacheHit ==
    IF cres.op = "get" THEN cres.ret = cres.had ELSE cres.ret = "true"

C18_RoundTrip ==
    (cres.op \in {"get", "has"} /\ cres.age >= 0) =>
        (CacheHit <=> cres.age <= exph * TicksPerHour)

\* C19 (SpecCache).  clean_expired removes exactly the entries whose age
\* exceeds expiration_hours and leaves the others as they are; clear removes
\* every entry.
Stale(e) == e.exists /\ Age(e) > exph * TicksPerHour

Sweeps(o) == cres'.op = o /\ (cres' # cres \/ cache' # cache)

C19_SweepExact ==
    [][/\ Sweeps("clean") =>
            \A k \in GoodKeys :
                cache'[k] = IF Stale(cache[k]) THEN NoEntry ELSE cache[k]
       /\ Sweeps("clear") =>
            \A k \in GoodKeys : ~cache'[k].exists /\ ~HasValid(k)']_vars

\* C20 (SpecCache).  has_valid_cache, get and put called with a key that
\* holds a non-hex character fail with an error, in every cache state.
C20_KeyValidated ==
    (cres.op \in {"has", "get", "put"} /\ ~ValidKey(cres.key)) => cres.ret = "threw"

\* C28 (SpecCache).  Size ceiling in put: when the cache is over the size
\* ceiling, put sweeps the expired entries first and writes the new entry
\* if that brings the size under the ceiling.
Puts == cres'.op = "put" /\ (cres' # cres \/ cache' # cache)

C28_SizeCeilingSweeps ==
    [][(/\ Puts
        /\ ValidKey(cres'.key)
        /\ Count(cache) < MaxEntries
        /\ Bytes(cache) > MaxBytes
        /\ Bytes(CleanExpired(cache)) <= MaxBytes)
       => (/\ cres'.ret = "stored"
           /\ cache'[cres'.key].exists)]_vars

\* C26 (SpecWriter).  Failed commit preserves the target: when commit has
\* thrown after its rename, retry included, and no writer has published,
\* the target exists exactly when it existed at the start, and the
\* temporary file of the writer is gone.
CommitFailed(w) ==
    aw[w].commitCalled /\ aw[w].flen # -1 /\ aw[w].res = "threw" /\ ~aw[w].committed

C26_FailedCommitKeepsTarget ==
    \A w \in Writers :
        (CommitFailed(w) /\ target.by = 0) =>
            (target.exists = target.had /\ aw[w].temp = -1)

\* C27 (SpecGuard).  Lock-mode truthfulness: every FileLock object says it
\* is locked exactly when a lock is held through its descriptor, and its
\* recorded type is the mode held; so also after a try_upgrade that failed.
HeldMode(d) == IF d.fd # 0 /\ fdt[d.fd] \in {"sh", "ex"} THEN fdt[d.fd] ELSE "none"

C27_ModeTruthful ==
    \A g \in Guards :
        gd[g].st = "live" =>
            /\ gd[g].locked <=> HeldMode(gd[g]) # "none"
            /\ gd[g].locked => gd[g].type = HeldMode(gd[g])

\* C25 (SpecBurst).  Critical sections on the state file are totally
\* ordered: at most one process at a time is between taking and releasing
\* the exclusive FileLock of try_acquire or reset, and the state a section
\* saves is computed from the state the path holds at that moment, which is
\* the one the section before it persisted.
InSection(p) == lk[p] = "ex" /\ call[p] \in {"try", "reset"}

SavesInSection(p) == pc[p] = "ta_save" /\ pc'[p] # pc[p]

C25_OneSection ==
    \A p, q \in Procs : (p # q /\ InSection(p)) => ~InSection(q)

C25_LoadsPrevious ==
    \A p \in Procs :
        SavesInSection(p) =>
            st[p] = Consume(UpdateTokens(ReadPath, NowMs), n[p], NowMs)

C25_SectionsOrdered == []C25_OneSection /\ [][C25_LoadsPrevious]_vars

\* C21 (SpecNames).  Filename invariant: every entry file of the cache
\* directory is named by a key of exactly the length of a digest in hex,
\* all hex digits; a key of another length never produces an entry file.
WellFormedName(k) == Len(k) = KeyLen /\ ValidKey(k)

C21_EntryNames == \A k \in EntryKeys : cache[k].exists => WellFormedName(k)

\* C24 (SpecKeys).  generate_key is injective on its fields, the hash taken
\* as injective: two triples get the same key exactly when they are equal,
\* and every key is a digest in lowercase hex.
LowerHexKey(k) ==
    Len(k) = KeyLen /\ \A i \in 1 .. Len(k) : \E d \in 1 .. 16 : k[i] = LowerHex[d]

C24_KeyInjective ==
    (kout[1] # << >> /\ kout[2] # << >>) =>
        /\ (kout[1] = kout[2]) <=> (kin[1] = kin[2])
        /\ LowerHexKey(kout[1]) /\ LowerHexKey(kout[2])

\* C22 (SpecShared).  Entry-count ceiling: the cache directory never holds
\* more than MaxEntries entry files, whatever the interleaving of put,
\* clear and clean_expired.
C22_EntryCeiling == SCount(dent) <= MaxEntries

\* C23 (SpecShared).  Concurrent puts are last-writer-wins: an entry file
\* that is there holds the complete entry of one put, never an empty, cut
\* or mixed one.
C23_WholeEntries == \A k \in GoodKeys : dent[k].exists => dent[k].data \in CompleteFiles

\* C29 (SpecSweep).  Removal counts are exact: the count clear or
\* clean_expired returns is the number of files that call removed.
C29_ExactCounts ==
    \A p \in CProcs :
        (cp[p].pc = "done" /\ cp[p].op \in {"clear", "clean"}) =>
            cp[p].cnt = cp[p].removed

\* C30 (SpecSweep).  get is fail-open: it never lets an error through to
\* its caller, and a miss counts one miss.
C30_GetFailOpen ==
    \A p \in CProcs :
        (cp[p].pc = "done" /\ cp[p].op = "get") =>
            /\ cp[p].ret # "threw"
            /\ cp[p].ret = "miss" => cp[p].misses = 1

====
